---- MODULE Spec2Model ----
(***************************************************************************)
(* A model of casm/project/api.py: the API class that loads libcasm and    *)
(* libccasm once into the class member API.__api and forwards every call   *)
(* to the C entry points of libccasm through ctypes; and of                *)
(* casm/scripts/casm_convert.py, the structure file converter.             *)
(*                                                                         *)
(* The specifications share the variables:                                 *)
(*   Spec         threads constructing API() concurrently                  *)
(*   SpecSingle   the same steps taken by one thread only                  *)
(*   SpecHandles  the wrapper operations on handles, from the state a      *)
(*                successful API() construction leaves                     *)
(*   SpecConvert  calls of the converter's writers and of its main         *)
(*   SpecCheckOutput  calls of _check_output                               *)
(*   SpecIntermediary  constructions and conversions of ASEIntermediary    *)
(***************************************************************************)
EXTENDS Integers, Sequences, FiniteSets, TLC

\* ------------------------------------------------------------------ bounds
NumThreads == 2      \* threads that may construct API()
MaxInits == 3        \* executions of API.__API.__init__ (retries included)
MaxInstances == 2    \* API instances one thread constructs
MaxSinks == 1        \* capturing sinks ever created
MaxContexts == 1     \* project contexts ever created
MaxLen == 2          \* bytes a capturing sink holds
MaxStale == 1        \* subsystems of one context out of date at a time
MaxText == 3         \* tokens of the text _check_output is given
MaxInputs == 2       \* files one --input option lists
MaxAtoms == 2        \* atoms of one structure

Threads == 1..NumThreads
MainThread == CHOOSE t \in Threads : \A u \in Threads : t <= u

VARIABLES
  platform,    \* sys.platform: "darwin" or "linux"
  api,         \* the class member API.__api: None, or the id of a session object
  objs,        \* the API.__API objects ever allocated, by id
  pc,          \* where each thread stands inside API.__init__
  self,        \* the session object a thread is initializing (its id), or None
  raised,      \* the exception the thread's last API() call ended with
  cause,       \* what went wrong in the thread's last API() call
  instances,   \* API instances the thread has constructed
  heap,        \* the engine's caller-owned objects, by address
  alive,       \* FALSE once undefined behaviour has crashed the process
  last,        \* the last wrapper operation: what it passed on and returned
  fs,          \* the files of the converter's directories, by path
  res          \* the last call into casm_convert.py: arguments and outcome

sessionVars == <<platform, api, objs, pc, self, raised, cause, instances>>
handleVars == <<heap, alive, last>>
convVars == <<fs, res>>
vars == <<platform, api, objs, pc, self, raised, cause, instances,
          heap, alive, last, fs, res>>

\* ---------------------------------------------------------------- session
None == 0

NoException == [type |-> "none", origin |-> "none"]

\* An API.__API object before its __init__ has run: no attribute is set.
NewSession == [lib_casm |-> FALSE, lib_ccasm |-> FALSE, bound |-> FALSE]

\* Both libraries loaded and the whole signature table bound.
Initialized(o) == o.lib_casm /\ o.lib_ccasm /\ o.bound

\* The dependency introspection tool of lines 39-43.
introspection_tool(p) == IF p = "darwin" THEN "otool" ELSE "ldd"

\* The exception the try block of lines 37-47 raises for a failure.
\* find_executable returns None for a missing executable and raises nothing:
\* the first error is the one of sh.otool / sh.ldd run on None.
exception_in_try(c, p) ==
  CASE c = "no_executable" -> [type |-> "ErrorReturnCode", origin |-> introspection_tool(p)]
    [] c = "no_dependency" -> [type |-> "ErrorReturnCode", origin |-> "grep"]
    [] c = "load_casm"     -> [type |-> "OSError", origin |-> "CDLL(libcasm)"]
    [] c = "load_ccasm"    -> [type |-> "OSError", origin |-> "CDLL(libccasm)"]

\* The except clause of lines 48-58: it prints, looks the executable up again,
\* prints the dependency listing of casm_path and then re-raises e.  With no
\* executable, casm_path is None and the listing itself raises, before raise e.
except_handler(c, p, e) ==
  IF c = "no_executable"
    THEN [type |-> "ErrorReturnCode", origin |-> introspection_tool(p)]
    ELSE e

\* What leaves API() for a failure c.  The signature table (lines 62-90) is
\* bound outside the try block: a missing symbol is an AttributeError.
propagated(c, p) ==
  IF c = "bind"
    THEN [type |-> "AttributeError", origin |-> "lib_ccasm"]
    ELSE except_handler(c, p, exception_in_try(c, p))

\* Line 101 as it would read if the test never saw the stored session.
api_is_None_always(a) == TRUE

\* Line 101: the test that decides whether this construction initializes.
api_is_None(a) == a = None

\* Raise as it would be if the object were stored in API.__api before its
\* __init__ had finished.
Raise_published(t, c) ==
  /\ raised' = [raised EXCEPT ![t] = propagated(c, platform)]
  /\ cause' = [cause EXCEPT ![t] = c]
  /\ pc' = [pc EXCEPT ![t] = "idle"]
  /\ self' = [self EXCEPT ![t] = None]
  /\ api' = self[t]
  /\ UNCHANGED instances

\* The exception leaves API.__API.__init__ and API.__init__: line 102's
\* assignment does not happen and the caller gets no instance.
Raise(t, c) ==
  /\ raised' = [raised EXCEPT ![t] = propagated(c, platform)]
  /\ cause' = [cause EXCEPT ![t] = c]
  /\ pc' = [pc EXCEPT ![t] = "idle"]
  /\ self' = [self EXCEPT ![t] = None]
  /\ UNCHANGED <<api, instances>>

\* Lines 94-103, the test: with a session present the construction returns at
\* once; with none it allocates an API.__API object and enters its __init__.
Check(t) ==
  /\ pc[t] = "idle"
  /\ instances[t] < MaxInstances
  /\ IF api_is_None(api)
       THEN /\ Len(objs) < MaxInits
            /\ objs' = Append(objs, NewSession)
            /\ self' = [self EXCEPT ![t] = Len(objs) + 1]
            /\ pc' = [pc EXCEPT ![t] = "locate"]
            /\ UNCHANGED instances
       ELSE /\ instances' = [instances EXCEPT ![t] = @ + 1]
            /\ UNCHANGED <<objs, self, pc>>
  /\ raised' = [raised EXCEPT ![t] = NoException]
  /\ cause' = [cause EXCEPT ![t] = "none"]
  /\ UNCHANGED <<platform, api>>
  /\ UNCHANGED handleVars
  /\ UNCHANGED convVars

\* Lines 38-44: find the executable, list its dependencies, derive both paths.
Locate(t) ==
  /\ pc[t] = "locate"
  /\ \E found \in BOOLEAN, listed \in BOOLEAN :
       IF found /\ listed
         THEN /\ pc' = [pc EXCEPT ![t] = "load_casm"]
              /\ UNCHANGED <<api, self, raised, cause, instances>>
         ELSE Raise(t, IF found THEN "no_dependency" ELSE "no_executable")
  /\ UNCHANGED <<platform, objs>>
  /\ UNCHANGED handleVars
  /\ UNCHANGED convVars

\* Line 46: self.lib_casm = ctypes.CDLL(libcasm_path, RTLD_GLOBAL).
LoadCasm(t) ==
  /\ pc[t] = "load_casm"
  /\ \E ok \in BOOLEAN :
       IF ok
         THEN /\ objs' = [objs EXCEPT ![self[t]].lib_casm = TRUE]
              /\ pc' = [pc EXCEPT ![t] = "load_ccasm"]
              /\ UNCHANGED <<api, self, raised, cause, instances>>
         ELSE /\ Raise(t, "load_casm")
              /\ UNCHANGED objs
  /\ UNCHANGED platform
  /\ UNCHANGED handleVars
  /\ UNCHANGED convVars

\* Line 47: self.lib_ccasm = ctypes.CDLL(libccasm_path, RTLD_GLOBAL).
LoadCcasm(t) ==
  /\ pc[t] = "load_ccasm"
  /\ \E ok \in BOOLEAN :
       IF ok
         THEN /\ objs' = [objs EXCEPT ![self[t]].lib_ccasm = TRUE]
              /\ pc' = [pc EXCEPT ![t] = "bind"]
              /\ UNCHANGED <<api, self, raised, cause, instances>>
         ELSE /\ Raise(t, "load_ccasm")
              /\ UNCHANGED objs
  /\ UNCHANGED platform
  /\ UNCHANGED handleVars
  /\ UNCHANGED convVars

\* Lines 62-90: restype and argtypes of every entry point.
Bind(t) ==
  /\ pc[t] = "bind"
  /\ \E ok \in BOOLEAN :
       IF ok
         THEN /\ objs' = [objs EXCEPT ![self[t]].bound = TRUE]
              /\ pc' = [pc EXCEPT ![t] = "assign"]
              /\ UNCHANGED <<api, self, raised, cause, instances>>
         ELSE /\ Raise(t, "bind")
              /\ UNCHANGED objs
  /\ UNCHANGED platform
  /\ UNCHANGED handleVars
  /\ UNCHANGED convVars

\* Line 102 as it would be if the store came before the signature table.
Assign_early(t) ==
  /\ pc[t] \in {"bind", "assign"}
  /\ api' = self[t]
  /\ instances' = [instances EXCEPT ![t] = @ + 1]
  /\ pc' = [pc EXCEPT ![t] = "idle"]
  /\ self' = [self EXCEPT ![t] = None]
  /\ UNCHANGED <<platform, objs, raised, cause>>
  /\ UNCHANGED handleVars
  /\ UNCHANGED convVars

\* Line 102, the store: API.__api = <the object just initialized>.
Assign(t) ==
  /\ pc[t] = "assign"
  /\ api' = self[t]
  /\ instances' = [instances EXCEPT ![t] = @ + 1]
  /\ pc' = [pc EXCEPT ![t] = "idle"]
  /\ self' = [self EXCEPT ![t] = None]
  /\ UNCHANGED <<platform, objs, raised, cause>>
  /\ UNCHANGED handleVars
  /\ UNCHANGED convVars

Construct(t) ==
  \/ Check(t)
  \/ Locate(t)
  \/ LoadCasm(t)
  \/ LoadCcasm(t)
  \/ Bind(t)
  \/ Assign(t)

\* ---------------------------------------------------------------- handles
\* The three singleton logs of libccasm (lines 62-66, 105-127); None is the
\* null pointer ctypes passes for a c_void_p argument.
casm_STDOUT == 1
casm_STDERR == 2
casm_nullstream == 3

StdSinks == {casm_STDOUT, casm_STDERR, casm_nullstream}
SinkAddrs == (casm_nullstream + 1)..(casm_nullstream + MaxSinks)
CtxAddrs == (casm_nullstream + MaxSinks + 1)..(casm_nullstream + MaxSinks + MaxContexts)
Addrs == SinkAddrs \cup CtxAddrs
\* The handles a caller passes where a log, a capturing sink or a project
\* context is expected: the ones this API handed out for that use, and null.
LogHandles == StdSinks \cup SinkAddrs
SinkHandles == {None} \cup StdSinks \cup SinkAddrs
CtxHandles == {None} \cup CtxAddrs

Byte == 0..1
Subsystems == {"settings", "composition", "chem_ref", "configs"}
StatusCodes == 0..8
Roots == {"proj", "empty"}
Args == {"query", "bad"}
KwArgs == {"omitted", "True"}

\* The (log, debug_log, err_log) a caller passes: one handle for all three, or
\* a handle for the standard output beside the null and the error singleton.
LogTriples == {<<l, l, l>> : l \in LogHandles}
                \cup {<<l, casm_nullstream, casm_STDERR>> : l \in LogHandles}

\* An address the engine never handed out, and what is left of a released object.
Free == [kind |-> "free", live |-> FALSE, content |-> <<>>, stale |-> {}, clex |-> FALSE]
NewSink == [kind |-> "sink", live |-> TRUE, content |-> <<>>, stale |-> {}, clex |-> FALSE]
NewContext == [kind |-> "ctx", live |-> TRUE, content |-> <<>>, stale |-> {}, clex |-> FALSE]
Released(o) == [Free EXCEPT !.kind = o.kind]

\* op: the wrapper operation; h: the handle it was given; hstate: what h
\* denoted then; logs_ok: whether its log arguments were valid; args: the
\* caller's arguments; native: the entry point of libccasm that was invoked
\* and nargs the arguments it received; rc, str: the value returned.
NoCall == [op |-> "none", h |-> None, hstate |-> "null", logs_ok |-> TRUE,
           args |-> <<>>, native |-> "none", nargs |-> <<>>, rc |-> 0, str |-> <<>>]

\* What a handle denotes when it is passed where an object of `kind` is expected.
HandleState(h, kind) ==
  IF h = None THEN "null"
  ELSE IF h \in StdSinks THEN "std"
  ELSE IF heap[h].kind = "free" THEN "never"
  ELSE IF heap[h].kind # kind THEN "wrong_type"
  ELSE IF heap[h].live THEN "live" ELSE "released"

\* A handle that may be passed as a CASM::Log.
ValidLog(h) == HandleState(h, "sink") \in {"live", "std"}

\* The address the engine's next allocation out of `pool` returns.
NextAddr(pool) == CHOOSE a \in pool :
                    /\ heap[a].kind = "free"
                    /\ \A b \in pool : heap[b].kind = "free" => a <= b

SeqsUpTo(S, n) == UNION {[1..k -> S] : k \in 0..n}

\* ------------------------------------------ the engine (libccasm), per spec
\* capturing-sink-size: the number of bytes written to the sink.
casm_ostringstream_size(content) == Len(content)

\* capturing-sink-copy: copies that many bytes into the caller's storage.
casm_ostringstream_strcpy(content, buf) ==
  [i \in 1..Len(buf) |-> IF i <= Len(content) THEN content[i] ELSE buf[i]]

\* refresh-project-context: each flag reloads its subsystem from disk, the
\* fifth clears the derived artifacts.
casm_primclex_refresh(o, f) ==
  [o EXCEPT !.stale = @ \ {s \in Subsystems :
                             \/ s = "settings" /\ f[1]
                             \/ s = "composition" /\ f[2]
                             \/ s = "chem_ref" /\ f[3]
                             \/ s = "configs" /\ f[4]},
            !.clex = @ /\ ~f[5]]

\* dispatch-command: status and text are a function of the argument string,
\* the context's cached state (a fresh one for a null context) and the root.
casm_capi(args, o, root) ==
  IF args = "bad"
    THEN [status |-> 1, out |-> <<>>, err |-> <<1>>, clex |-> o.clex]
  ELSE IF o.kind # "ctx" /\ root = "empty"
    THEN [status |-> 3, out |-> <<>>, err |-> <<1>>, clex |-> o.clex]
  ELSE [status |-> 0,
        out |-> <<Cardinality(o.stale), IF o.clex THEN 1 ELSE 0>>,
        err |-> <<>>, clex |-> TRUE]

\* The context a dispatch works on: the caller's, or a temporary one.
ContextOf(primclex) == IF primclex = None THEN Free ELSE heap[primclex]

\* --------------------------------------------------- the wrapper, api.py
\* ctypes.create_string_buffer(n): n zero bytes.
create_string_buffer(n) == [i \in 1..n |-> 0]

\* c_char array .value: the bytes before the first zero byte.
c_str_value(buf) ==
  LET z == {i \in 1..Len(buf) : buf[i] = 0}
  IN IF z = {} THEN buf
     ELSE SubSeq(buf, 1, (CHOOSE i \in z : \A j \in z : i <= j) - 1)

\* Lines 157-159: size the buffer, copy, return c_str.value.
ostringstream_to_str(content) ==
  c_str_value(casm_ostringstream_strcpy(content,
                create_string_buffer(casm_ostringstream_size(content))))

\* Line 333 as it would be if the status came back as a wait status.
call_return_exit(status) == status * 256

\* Line 333 with restype = ctypes.c_int (line 90): API.__call__ returns the
\* native int as a Python int of the same value.
call_return(status) == status

\* Line 333 as it would be with the debug and the error log interchanged.
capi_args_swapped(args, primclex, root, log, debug_log, err_log) ==
  <<args, primclex, root, log, err_log, debug_log>>

\* Line 333: the six arguments of casm_capi, in the order they are passed.
capi_args(args, primclex, root, log, debug_log, err_log) ==
  <<args, primclex, root, log, debug_log, err_log>>

\* Line 211 as it would be with every default True.
kwarg_default_true(v, default) == IF v = "omitted" THEN TRUE ELSE v = "True"

\* A keyword argument of primclex_refresh, with its default (line 211).
kwarg(v, default) == IF v = "omitted" THEN default ELSE v = "True"

\* Line 242 as it would be with read_configs and clear_clex interchanged.
refresh_flags_swapped(rs, rc, rr, rf, cc) ==
  <<kwarg(rs, FALSE), kwarg(rc, FALSE), kwarg(rr, FALSE), kwarg(cc, FALSE),
    kwarg(rf, FALSE)>>

\* Line 242: the five flags as they are passed to casm_primclex_refresh.
refresh_flags(rs, rc, rr, rf, cc) ==
  <<kwarg(rs, FALSE), kwarg(rc, FALSE), kwarg(rr, FALSE), kwarg(rf, FALSE),
    kwarg(cc, FALSE)>>

\* Every operation goes through API.__api.lib_ccasm: it needs the session.
HaveSession == alive /\ ~api_is_None(api) /\ \E t \in Threads : instances[t] > 0

Returned(op, h, rc) ==
  [NoCall EXCEPT !.op = op, !.h = h, !.rc = rc, !.native = op, !.hstate = "std"]

\* Lines 105-111.
Stdout ==
  /\ HaveSession
  /\ last' = Returned("casm_STDOUT", casm_STDOUT, casm_STDOUT)
  /\ UNCHANGED <<heap, alive>>
  /\ UNCHANGED sessionVars
  /\ UNCHANGED convVars

\* Lines 113-119.
Stderr ==
  /\ HaveSession
  /\ last' = Returned("casm_STDERR", casm_STDERR, casm_STDERR)
  /\ UNCHANGED <<heap, alive>>
  /\ UNCHANGED sessionVars
  /\ UNCHANGED convVars

\* Lines 121-127.
Nullstream ==
  /\ HaveSession
  /\ last' = Returned("casm_nullstream", casm_nullstream, casm_nullstream)
  /\ UNCHANGED <<heap, alive>>
  /\ UNCHANGED sessionVars
  /\ UNCHANGED convVars

\* Lines 129-139.
OstringstreamNew ==
  /\ HaveSession
  /\ \E a \in SinkAddrs : heap[a].kind = "free"
  /\ heap' = [heap EXCEPT ![NextAddr(SinkAddrs)] = NewSink]
  /\ last' = [NoCall EXCEPT !.op = "ostringstream_new", !.h = NextAddr(SinkAddrs),
                            !.hstate = "live", !.rc = NextAddr(SinkAddrs),
                            !.native = "casm_ostringstream_new"]
  /\ UNCHANGED alive
  /\ UNCHANGED sessionVars
  /\ UNCHANGED convVars

\* ostringstream_to_str as it would be if a readout emptied the sink.
OstringstreamToStr_consuming(ptr) ==
  /\ HaveSession
  /\ HandleState(ptr, "sink") = "live"
  /\ last' = [NoCall EXCEPT !.op = "ostringstream_to_str", !.h = ptr,
                            !.hstate = "live",
                            !.native = "casm_ostringstream_strcpy",
                            !.str = ostringstream_to_str(heap[ptr].content)]
  /\ heap' = [heap EXCEPT ![ptr].content = <<>>]
  /\ UNCHANGED alive
  /\ UNCHANGED sessionVars
  /\ UNCHANGED convVars

\* Lines 141-159.  A handle that is no live capturing sink is read all the
\* same: the size query and the copy then act on whatever the address holds.
OstringstreamToStr(ptr) ==
  /\ HaveSession
  /\ LET st == HandleState(ptr, "sink")
         call == [NoCall EXCEPT !.op = "ostringstream_to_str", !.h = ptr,
                                !.hstate = st,
                                !.native = "casm_ostringstream_strcpy"]
     IN IF st = "live"
          THEN /\ last' = [call EXCEPT !.str = ostringstream_to_str(heap[ptr].content)]
               /\ UNCHANGED alive
          ELSE \/ alive' = FALSE /\ last' = call
               \/ \E garbage \in SeqsUpTo(Byte, MaxLen) :
                    /\ last' = [call EXCEPT !.str = c_str_value(garbage)]
                    /\ UNCHANGED alive
  /\ UNCHANGED heap
  /\ UNCHANGED sessionVars
  /\ UNCHANGED convVars

\* The native release of either kind, applied to whatever ptr denotes.
NativeDelete(ptr, kind, op, native) ==
  LET st == HandleState(ptr, kind)
      call == [NoCall EXCEPT !.op = op, !.h = ptr, !.hstate = st, !.native = native]
      gone == IF ptr \in Addrs /\ heap[ptr].live
                THEN [heap EXCEPT ![ptr] = Released(@)]
                ELSE heap
  IN /\ last' = call
     /\ heap' = gone
     /\ IF st \in {"live", "null"}
          THEN UNCHANGED alive
          ELSE \E crash \in BOOLEAN : alive' = ~crash

\* Lines 161-172.
OstringstreamDelete(ptr) ==
  /\ HaveSession
  /\ NativeDelete(ptr, "sink", "ostringstream_delete", "casm_ostringstream_delete")
  /\ UNCHANGED sessionVars
  /\ UNCHANGED convVars

\* Lines 174-209, for the path of an existing project.
PrimclexNew(log, debug_log, err_log) ==
  /\ HaveSession
  /\ \E a \in CtxAddrs : heap[a].kind = "free"
  /\ LET ok == ValidLog(log) /\ ValidLog(debug_log) /\ ValidLog(err_log)
     IN /\ IF ok THEN UNCHANGED alive ELSE \E crash \in BOOLEAN : alive' = ~crash
        /\ last' = [NoCall EXCEPT !.op = "primclex_new", !.h = NextAddr(CtxAddrs),
                                  !.hstate = "live", !.logs_ok = ok,
                                  !.rc = NextAddr(CtxAddrs),
                                  !.native = "casm_primclex_new"]
  /\ heap' = [heap EXCEPT ![NextAddr(CtxAddrs)] = NewContext]
  /\ UNCHANGED sessionVars
  /\ UNCHANGED convVars

\* primclex_refresh as it would be if it rebuilt the context: the old one
\* is released and the refreshed state lives on at a new address.
PrimclexRefresh_recreate(ptr, rs, rc, rr, rf, cc) ==
  /\ HaveSession
  /\ HandleState(ptr, "ctx") = "live"
  /\ last' = [NoCall EXCEPT !.op = "primclex_refresh", !.h = ptr,
                            !.hstate = "live", !.args = <<rs, rc, rr, rf, cc>>,
                            !.nargs = refresh_flags(rs, rc, rr, rf, cc),
                            !.native = "casm_primclex_refresh"]
  /\ heap' = [heap EXCEPT ![ptr] = Released(@)]
  /\ UNCHANGED alive
  /\ UNCHANGED sessionVars
  /\ UNCHANGED convVars

\* Lines 211-243.
PrimclexRefresh(ptr, rs, rc, rr, rf, cc) ==
  /\ HaveSession
  /\ LET st == HandleState(ptr, "ctx")
         f == refresh_flags(rs, rc, rr, rf, cc)
     IN /\ last' = [NoCall EXCEPT !.op = "primclex_refresh", !.h = ptr,
                                  !.hstate = st, !.args = <<rs, rc, rr, rf, cc>>,
                                  !.nargs = f,
                                  !.native = "casm_primclex_refresh"]
        /\ IF st = "live"
             THEN /\ heap' = [heap EXCEPT ![ptr] = casm_primclex_refresh(@, f)]
                  /\ UNCHANGED alive
             ELSE /\ \E crash \in BOOLEAN : alive' = ~crash
                  /\ UNCHANGED heap
  /\ UNCHANGED sessionVars
  /\ UNCHANGED convVars

\* Lines 245-256.
PrimclexDelete(ptr) ==
  /\ HaveSession
  /\ NativeDelete(ptr, "ctx", "primclex_delete", "casm_primclex_delete")
  /\ UNCHANGED sessionVars
  /\ UNCHANGED convVars

\* Text the engine writes to a log: kept by a capturing sink, gone otherwise.
Written(hp, h, bytes) ==
  IF h \in Addrs THEN [hp EXCEPT ![h].content = @ \o bytes] ELSE hp

\* API.__call__ as it would be if a failed command cleaned up after itself:
\* a non-zero status releases the context the command ran on.
Call_releasing(args, primclex, root, log, debug_log, err_log) ==
  /\ HaveSession
  /\ HandleState(primclex, "ctx") = "live"
  /\ ValidLog(log) /\ ValidLog(debug_log) /\ ValidLog(err_log)
  /\ LET r == casm_capi(args, ContextOf(primclex), root)
         h1 == [heap EXCEPT ![primclex] =
                  IF r.status = 0 THEN [@ EXCEPT !.clex = r.clex] ELSE Released(@)]
         h2 == Written(Written(h1, log, r.out), err_log, r.err)
     IN /\ \A a \in Addrs : Len(h2[a].content) <= MaxLen
        /\ heap' = h2
        /\ last' = [NoCall EXCEPT !.op = "call", !.h = primclex, !.hstate = "live",
                                  !.native = "casm_capi",
                                  !.args = <<args, primclex, root, log, debug_log, err_log>>,
                                  !.nargs = <<args, primclex, root, log, debug_log, err_log>>,
                                  !.rc = call_return(r.status)]
  /\ UNCHANGED alive
  /\ UNCHANGED sessionVars
  /\ UNCHANGED convVars

\* Lines 259-333.  The engine works on what line 333 passes it: n[1] the
\* argument string, n[2] the context, n[3] the root, n[4] the standard, n[5]
\* the debug and n[6] the error log.
Call(args, primclex, root, log, debug_log, err_log) ==
  /\ HaveSession
  /\ LET n == capi_args(args, primclex, root, log, debug_log, err_log)
         st == HandleState(n[2], "ctx")
         ok == ValidLog(n[4]) /\ ValidLog(n[5]) /\ ValidLog(n[6])
         call == [NoCall EXCEPT !.op = "call", !.h = primclex, !.hstate = st,
                                !.logs_ok = ok, !.native = "casm_capi",
                                !.args = <<args, primclex, root, log, debug_log, err_log>>,
                                !.nargs = n]
     IN IF st \in {"live", "null"} /\ ok
          THEN LET r == casm_capi(n[1], ContextOf(n[2]), n[3])
                   h1 == IF n[2] = None THEN heap
                         ELSE [heap EXCEPT ![n[2]].clex = r.clex]
                   h2 == Written(Written(h1, n[4], r.out), n[6], r.err)
               IN /\ \A a \in Addrs : Len(h2[a].content) <= MaxLen
                  /\ heap' = h2
                  /\ last' = [call EXCEPT !.rc = call_return(r.status)]
                  /\ UNCHANGED alive
          ELSE /\ \/ alive' = FALSE /\ last' = call
                  \/ \E status \in StatusCodes :
                       /\ last' = [call EXCEPT !.rc = call_return(status)]
                       /\ UNCHANGED alive
               /\ UNCHANGED heap
  /\ UNCHANGED sessionVars
  /\ UNCHANGED convVars

\* Someone else changes a file of the project tree: every open context's
\* copy of that subsystem is now out of date.
EditDisk(s) ==
  /\ alive
  /\ \E a \in Addrs : heap[a].kind = "ctx" /\ heap[a].live /\ s \notin heap[a].stale
  /\ \A a \in Addrs : Cardinality(heap[a].stale \cup {s}) <= MaxStale
  /\ heap' = [a \in Addrs |->
                IF heap[a].kind = "ctx" /\ heap[a].live
                  THEN [heap[a] EXCEPT !.stale = @ \cup {s}]
                  ELSE heap[a]]
  /\ last' = [NoCall EXCEPT !.op = "edit_disk"]
  /\ UNCHANGED alive
  /\ UNCHANGED sessionVars
  /\ UNCHANGED convVars

\* ------------------------------------- the converter, casm_convert.py
\* A call into the converter: its arguments, the message of the exception
\* that left it ("none" if it returned), the value it returned, the lines it
\* printed and whether json.loads was reached.
NoRes == [op |-> "none", in |-> <<>>, raised |-> "none", returned |-> FALSE,
          value |-> <<>>, printed |-> <<>>, parsed |-> FALSE]

\* The text of a command's output, as tokens of JSON: arrays of the number 1.
JsonTokens == {"[", "]", "1", ","}
Texts == SeqsUpTo(JsonTokens, MaxText)
ReturnCodes == {0, 1, 6}
CasmArgs == {"query -k structure -c ALL -j -o STDOUT",
             "query -k structure -c NONE --confignames cfg1 -j -o STDOUT"}

\* json.loads: one JSON value and nothing after it, else a ValueError.
\* A number parses to 1, an array to the sequence of its elements.
RECURSIVE json_value(_, _), json_elements(_, _, _)
json_value(s, i) ==
  IF i > Len(s) THEN [ok |-> FALSE, val |-> <<>>, next |-> i]
  ELSE IF s[i] = "1" THEN [ok |-> TRUE, val |-> 1, next |-> i + 1]
  ELSE IF s[i] = "["
    THEN IF i + 1 <= Len(s) /\ s[i + 1] = "]"
           THEN [ok |-> TRUE, val |-> <<>>, next |-> i + 2]
           ELSE json_elements(s, i + 1, <<>>)
  ELSE [ok |-> FALSE, val |-> <<>>, next |-> i]

json_elements(s, i, acc) ==
  LET v == json_value(s, i)
  IN IF ~v.ok \/ v.next > Len(s) THEN [ok |-> FALSE, val |-> <<>>, next |-> i]
     ELSE IF s[v.next] = ","
       THEN json_elements(s, v.next + 1, Append(acc, v.val))
     ELSE IF s[v.next] = "]"
       THEN [ok |-> TRUE, val |-> Append(acc, v.val), next |-> v.next + 1]
     ELSE [ok |-> FALSE, val |-> <<>>, next |-> i]

json_loads(text) ==
  LET v == json_value(text, 1)
  IN [ok |-> v.ok /\ v.next = Len(text) + 1, val |-> v.val]

\* Line 27 as it would be if the return code were never looked at.
truthy_never(returncode) == FALSE

\* Line 27, if returncode: an int is true unless it is 0.
truthy(returncode) == returncode # 0

\* Lines 26-34.
check_output(stdout, returncode, args) ==
  LET call == [NoRes EXCEPT !.op = "_check_output",
                            !.in = <<stdout, returncode, args>>]
  IN IF truthy(returncode)
       THEN [call EXCEPT !.printed = <<stdout>>,
                         !.raised = "Error with '" \o args \o "'"]
       ELSE LET v == json_loads(stdout)
            IN IF v.ok
                 THEN [call EXCEPT !.parsed = TRUE, !.returned = TRUE,
                                   !.value = v.val]
                 ELSE [call EXCEPT !.parsed = TRUE, !.printed = <<stdout>>,
                                   !.raised = "Error parsing '" \o args \o "' results"]

CheckOutput(stdout, returncode, args) ==
  /\ res' = check_output(stdout, returncode, args)
  /\ UNCHANGED fs
  /\ UNCHANGED sessionVars
  /\ UNCHANGED handleVars

\* The directory the converter works in, the output formats it is asked
\* for, the format of the files it is given and the chemical symbols ase knows.
Dirs == {"/a"}
Formats == {"casm", "CASM", "json", "vasp"}
InputFormats == {"vasp"}
AseSymbols == {"Si", "Ge"}

\* ase.Atoms of one atom in a cell of one dimension: the cell's length and
\* the atom's scaled position in halves of it.
SiAtoms == [cell |-> 2, symbols |-> <<"Si">>, scaled_positions |-> <<0>>]
GeAtoms == [cell |-> 4, symbols |-> <<"Ge">>, scaled_positions |-> <<1>>]
AtomsSet == {SiAtoms, GeAtoms}

\* str.lower() on the format strings above.
lower(format) == IF format = "CASM" THEN "casm" ELSE format

os_path_join(a, b) == a \o "/" \o b
os_path_exists(f, path) == path \in DOMAIN f

\* open(filename, 'w') and a write: the file holds the new content only.
open_w(f, filename, content) == (filename :> content) @@ f

\* dict.get(key, default)
dict_get(d, key, default) == IF key \in DOMAIN d THEN d[key] ELSE default

\* An outcome of a converter function: the files after it, the message of the
\* exception it raised ("none" if it returned) and its return value.
Raises(f, message) == [fs |-> f, raised |-> message, value |-> ""]
Returns(f, v) == [fs |-> f, raised |-> "none", value |-> v]

AlreadyExists(filename) == "casm convert error: " \o filename \o " already exists"

\* Lines 38 and 236 as they would be if they never refused.
exists_and_not_force_off(f, filename, force) == FALSE

\* Lines 38 and 236: os.path.exists(filename) and not force.
exists_and_not_force(f, filename, force) == os_path_exists(f, filename) /\ ~force

\* Lines 36-44.  The file holds the JSON text of the structure.
write_casm_structure(f, casm_structure, output_dir, force) ==
  LET filename == os_path_join(output_dir, "structure.casm.json")
  IN IF exists_and_not_force(f, filename, force)
       THEN Raises(f, AlreadyExists(filename))
       ELSE Returns(open_w(f, filename, [format |-> "casm", data |-> casm_structure]),
                    filename)

\* Lines 61-63.  The comprehension of line 63 runs its key expression,
\* casm_to_ase_chemical_symbols[value], once for each key of the dictionary;
\* no name value is bound in the function or the module, so the first key
\* raises NameError.  With no key the comprehension is the empty dictionary.
ASEIntermediary_init(casm_to_ase_chemical_symbols) ==
  IF DOMAIN casm_to_ase_chemical_symbols = {}
    THEN Returns(<<>>, [casm_to_ase_chemical_symbols |-> casm_to_ase_chemical_symbols,
                        ase_to_casm_chemical_symbols |-> <<>>])
    ELSE Raises(<<>>, "NameError: name 'value' is not defined")

\* Lines 61-63 for the empty symbol table, the default of main (line 310).
ASEIntermediary == [casm_to_ase_chemical_symbols |-> <<>>,
                    ase_to_casm_chemical_symbols |-> <<>>]

\* Lines 65-146, for structures with no atom properties.  A Cartesian
\* coordinate x is the scaled position 2x / cell, in halves.
make_structure(this, casm_structure) ==
  LET keys == DOMAIN casm_structure
  IN IF "lattice_vectors" \notin keys /\ "lattice" \notin keys
       THEN Raises(<<>>, "Error: no lattice_vectors or lattice found in CASM structure")
     ELSE IF "atom_type" \notin keys THEN Raises(<<>>, "KeyError: 'atom_type'")
     ELSE LET cell == IF "lattice_vectors" \in keys
                        THEN casm_structure["lattice_vectors"]
                        ELSE casm_structure["lattice"]
              symbols == [i \in 1..Len(casm_structure["atom_type"]) |->
                            dict_get(this.casm_to_ase_chemical_symbols,
                                     casm_structure["atom_type"][i],
                                     casm_structure["atom_type"][i])]
          IN IF \E i \in 1..Len(symbols) : symbols[i] \notin AseSymbols
               THEN Raises(<<>>, "Error setting ase chemical symbols.")
             ELSE IF "coord_mode" \notin keys THEN Raises(<<>>, "KeyError: 'coord_mode'")
             ELSE IF "atom_coords" \notin keys THEN Raises(<<>>, "KeyError: 'atom_coords'")
             ELSE LET coords == casm_structure["atom_coords"]
                      frac == casm_structure["coord_mode"] \in
                                {"Direct", "direct", "Fractional", "fractional"}
                  IN Returns(<<>>,
                       [cell |-> cell, symbols |-> symbols,
                        scaled_positions |->
                          IF frac THEN coords
                          ELSE [i \in 1..Len(coords) |-> (2 * coords[i]) \div cell]])

\* Lines 148-179.
make_casm_structure(this, ase_structure) ==
  [lattice_vectors |-> ase_structure.cell,
   coord_mode |-> "Fractional",
   atom_coords |-> ase_structure.scaled_positions,
   atom_types |-> [i \in 1..Len(ase_structure.symbols) |->
                     dict_get(this.ase_to_casm_chemical_symbols,
                              ase_structure.symbols[i], ase_structure.symbols[i])]]

\* ase.io.write(filename, images, format) and ase.io.read(filename, format),
\* for formats ase knows: a file read in the format it was written in gives
\* the structure back.
ase_io_write(f, filename, images, format) ==
  open_w(f, filename, [format |-> format, data |-> images])

ase_io_read(f, filename, format) ==
  IF ~os_path_exists(f, filename) THEN Raises(f, "IOError")
  ELSE IF f[filename].format # format THEN Raises(f, "ase: cannot read file as " \o format)
  ELSE Returns(f, f[filename].data)

\* Lines 181-204.  json.load gives the dict a JSON file holds: the structure
\* of a CASM file, ase's own keys for a file ase wrote as json.
read_structure(this, f, filename, format) ==
  IF lower(format) = "casm"
    THEN IF ~os_path_exists(f, filename) THEN Raises(f, "IOError")
         ELSE IF f[filename].format = "casm"
           THEN LET r == make_structure(this, f[filename].data)
                IN [r EXCEPT !.fs = f]
         ELSE IF f[filename].format = "json"
           THEN LET r == make_structure(this, [ase |-> f[filename].data])
                IN [r EXCEPT !.fs = f]
         ELSE Raises(f, "ValueError")
    ELSE ase_io_read(f, filename, format)

\* Lines 229-234.
ext(format) ==
  IF format = "json" THEN "ase.json"
  ELSE IF format = "casm" THEN "casm.json"
  ELSE format

\* Lines 206-244.
write_structure(this, f, ase_structure, format, output_dir, force) ==
  LET filename == os_path_join(output_dir, "structure." \o ext(format))
  IN IF exists_and_not_force(f, filename, force)
       THEN Raises(f, AlreadyExists(filename))
     ELSE IF lower(format) = "casm"
       THEN write_casm_structure(f, make_casm_structure(this, ase_structure),
                                 output_dir, force)
     ELSE Returns(ase_io_write(f, filename, ase_structure, format), filename)

\* The names of the files in a directory, and os.path.dirname of their paths.
FileNames == {"POSCAR", "CONTCAR", "structure.casm.json"}
               \cup {"structure." \o ext(format) : format \in Formats}
os_path_dirname(path) ==
  CHOOSE d \in Dirs : \E name \in FileNames : path = os_path_join(d, name)

\* Lines 246-260.  The directory of an input file exists.
convert_file(this, f, input_filename, input_format, output_format, force) ==
  LET output_dir == os_path_dirname(input_filename)
      r == read_structure(this, f, input_filename, input_format)
  IN IF r.raised # "none" THEN r
     ELSE write_structure(this, f, r.value, output_format, output_dir, force)

\* Lines 300-324, for a non-empty --input and no --chemical-symbols.  The
\* return of line 324 stands inside the body of the for loop of line 321:
\* the first pass through the body leaves main.
main(f, input, input_format, output_format, force) ==
  LET intermediary == ASEIntermediary
      r == convert_file(intermediary, f, input[1], input_format, output_format, force)
  IN IF r.raised # "none"
       THEN [fs |-> r.fs, raised |-> r.raised, printed |-> <<>>]
       ELSE [fs |-> r.fs, raised |-> "none", printed |-> <<r.value>>]

\* The structures a caller hands to write_casm_structure.
CasmStructures == {make_casm_structure(ASEIntermediary, a) : a \in AtomsSet}

\* The files a user names after --input: the two structure files of a
\* directory.
InputFiles == {os_path_join(d, name) : d \in Dirs, name \in {"POSCAR", "CONTCAR"}}
InputLists == UNION {[1..k -> InputFiles] : k \in 1..MaxInputs}

WriteCasmStructure(casm_structure, output_dir, force) ==
  /\ LET r == write_casm_structure(fs, casm_structure, output_dir, force)
     IN /\ fs' = r.fs
        /\ res' = [NoRes EXCEPT !.op = "write_casm_structure",
                                !.in = <<casm_structure, output_dir, force>>,
                                !.raised = r.raised,
                                !.returned = (r.raised = "none"),
                                !.value = r.value]
  /\ UNCHANGED sessionVars
  /\ UNCHANGED handleVars

WriteStructure(ase_structure, format, output_dir, force) ==
  /\ LET r == write_structure(ASEIntermediary, fs, ase_structure, format,
                              output_dir, force)
     IN /\ fs' = r.fs
        /\ res' = [NoRes EXCEPT !.op = "write_structure",
                                !.in = <<ase_structure, format, output_dir, force>>,
                                !.raised = r.raised,
                                !.returned = (r.raised = "none"),
                                !.value = r.value]
  /\ UNCHANGED sessionVars
  /\ UNCHANGED handleVars

Main(input, input_format, output_format, force) ==
  /\ LET r == main(fs, input, input_format, output_format, force)
     IN /\ fs' = r.fs
        /\ res' = [NoRes EXCEPT !.op = "main",
                                !.in = <<input, input_format, output_format, force>>,
                                !.raised = r.raised,
                                !.returned = (r.raised = "none"),
                                !.printed = r.printed]
  /\ UNCHANGED sessionVars
  /\ UNCHANGED handleVars

\* The files a caller asks read_structure for, and the formats it names.
ReadFiles == {os_path_join(d, name) :
                d \in Dirs, name \in {"POSCAR", "structure.casm.json",
                                      "structure.ase.json"}}
ReadFormats == {"vasp", "casm"}

\* intermediary.read_structure(filename, format), lines 181-204.
ReadStructure(filename, format) ==
  /\ LET r == read_structure(ASEIntermediary, fs, filename, format)
     IN res' = [NoRes EXCEPT !.op = "read_structure",
                             !.in = <<filename, format>>,
                             !.raised = r.raised,
                             !.returned = (r.raised = "none"),
                             !.value = r.value]
  /\ UNCHANGED fs
  /\ UNCHANGED sessionVars
  /\ UNCHANGED handleVars

\* The atom types of a CASM project that are no chemical symbols, and the
\* injective dictionaries from some of them to symbols of ase.
CasmTypes == {"A", "B"}
SymbolTables ==
  {d \in UNION {[S -> AseSymbols] : S \in SUBSET CasmTypes} :
     \A j \in DOMAIN d, k \in DOMAIN d : d[j] = d[k] => j = k}

\* The ase.Atoms of up to MaxAtoms atoms.
AtomsUpTo ==
  UNION {[cell : {2, 4}, symbols : [1..n -> AseSymbols],
          scaled_positions : [1..n -> 0..1]] : n \in 1..MaxAtoms}

\* A CASM structure as the engine prints it, for the atoms a: with the key
\* atom_type, the lattice under either key, in either coordinate mode.
CasmStructureOf(a, lattice_key, coord_mode) ==
  LET coords == IF coord_mode = "Cartesian"
                  THEN [i \in 1..Len(a.scaled_positions) |->
                          (a.scaled_positions[i] * a.cell) \div 2]
                  ELSE a.scaled_positions
  IN IF lattice_key = "lattice"
       THEN [lattice |-> a.cell, coord_mode |-> coord_mode,
             atom_coords |-> coords, atom_type |-> a.symbols]
       ELSE [lattice_vectors |-> a.cell, coord_mode |-> coord_mode,
             atom_coords |-> coords, atom_type |-> a.symbols]

\* ASEIntermediary(casm_to_ase_chemical_symbols), lines 61-63.
NewIntermediary(casm_to_ase_chemical_symbols) ==
  /\ LET r == ASEIntermediary_init(casm_to_ase_chemical_symbols)
     IN res' = [NoRes EXCEPT !.op = "ASEIntermediary",
                             !.in = <<casm_to_ase_chemical_symbols>>,
                             !.raised = r.raised,
                             !.returned = (r.raised = "none"),
                             !.value = r.value]
  /\ UNCHANGED fs
  /\ UNCHANGED sessionVars
  /\ UNCHANGED handleVars

\* intermediary.make_casm_structure(ase_structure), lines 148-179.
MakeCasmStructure(ase_structure) ==
  /\ res' = [NoRes EXCEPT !.op = "make_casm_structure",
                          !.in = <<ase_structure>>,
                          !.returned = TRUE,
                          !.value = make_casm_structure(ASEIntermediary, ase_structure)]
  /\ UNCHANGED fs
  /\ UNCHANGED sessionVars
  /\ UNCHANGED handleVars

\* intermediary.make_structure(casm_structure), lines 65-146.
MakeStructure(casm_structure) ==
  /\ LET r == make_structure(ASEIntermediary, casm_structure)
     IN res' = [NoRes EXCEPT !.op = "make_structure",
                             !.in = <<casm_structure>>,
                             !.raised = r.raised,
                             !.returned = (r.raised = "none"),
                             !.value = r.value]
  /\ UNCHANGED fs
  /\ UNCHANGED sessionVars
  /\ UNCHANGED handleVars

\* ---------------------------------------------------------- specifications
InitHandles ==
  /\ heap = [a \in Addrs |-> Free]
  /\ alive = TRUE
  /\ last = NoCall

\* No file written and no call into the converter yet.
InitConvert ==
  /\ fs = <<>>
  /\ res = NoRes

\* The process before any API() construction.
Init ==
  /\ platform \in {"darwin", "linux"}
  /\ api = None
  /\ objs = <<>>
  /\ pc = [t \in Threads |-> "idle"]
  /\ self = [t \in Threads |-> None]
  /\ raised = [t \in Threads |-> NoException]
  /\ cause = [t \in Threads |-> "none"]
  /\ instances = [t \in Threads |-> 0]
  /\ InitHandles
  /\ InitConvert

Next == \E t \in Threads : Construct(t)

Spec == Init /\ [][Next]_vars

NextSingle == Construct(MainThread)

SpecSingle == Init /\ [][NextSingle]_vars

\* The process after the main thread's first API() construction succeeded.
\* No operation on a handle reads the platform: one stands for both.
InitSession ==
  /\ platform = "linux"
  /\ api = 1
  /\ objs = <<[lib_casm |-> TRUE, lib_ccasm |-> TRUE, bound |-> TRUE]>>
  /\ pc = [t \in Threads |-> "idle"]
  /\ self = [t \in Threads |-> None]
  /\ raised = [t \in Threads |-> NoException]
  /\ cause = [t \in Threads |-> "none"]
  /\ instances = [t \in Threads |-> IF t = MainThread THEN 1 ELSE 0]
  /\ InitHandles
  /\ InitConvert

NextHandles ==
  \/ Stdout
  \/ Stderr
  \/ Nullstream
  \/ OstringstreamNew
  \/ \E ptr \in SinkHandles : OstringstreamToStr(ptr)
  \/ \E ptr \in SinkHandles : OstringstreamDelete(ptr)
  \/ \E logs \in LogTriples : PrimclexNew(logs[1], logs[2], logs[3])
  \/ \E ptr \in CtxHandles, rs \in KwArgs, rc \in KwArgs, rr \in KwArgs,
        rf \in KwArgs, cc \in KwArgs : PrimclexRefresh(ptr, rs, rc, rr, rf, cc)
  \/ \E ptr \in CtxHandles : PrimclexDelete(ptr)
  \/ \E args \in Args, primclex \in CtxHandles, root \in Roots, logs \in LogTriples :
       Call(args, primclex, root, logs[1], logs[2], logs[3])
  \/ \E s \in Subsystems : EditDisk(s)

SpecHandles == InitSession /\ [][NextHandles]_vars

NextCheckOutput ==
  \E stdout \in Texts, returncode \in ReturnCodes, args \in CasmArgs :
    CheckOutput(stdout, returncode, args)

SpecCheckOutput == Init /\ [][NextCheckOutput]_vars

\* A process that never constructs API(), with two structure files in the
\* directory.
InitFiles ==
  /\ platform = "linux"
  /\ api = None
  /\ objs = <<>>
  /\ pc = [t \in Threads |-> "idle"]
  /\ self = [t \in Threads |-> None]
  /\ raised = [t \in Threads |-> NoException]
  /\ cause = [t \in Threads |-> "none"]
  /\ instances = [t \in Threads |-> 0]
  /\ InitHandles
  /\ fs = ("/a/POSCAR" :> [format |-> "vasp", data |-> SiAtoms])
            @@ ("/a/CONTCAR" :> [format |-> "vasp", data |-> GeAtoms])
  /\ res = NoRes

NextConvert ==
  \/ \E casm_structure \in CasmStructures, output_dir \in Dirs, force \in BOOLEAN :
       WriteCasmStructure(casm_structure, output_dir, force)
  \/ \E ase_structure \in AtomsSet, format \in Formats, output_dir \in Dirs,
        force \in BOOLEAN :
       WriteStructure(ase_structure, format, output_dir, force)
  \/ \E input \in InputLists, input_format \in InputFormats,
        output_format \in Formats, force \in BOOLEAN :
       Main(input, input_format, output_format, force)
  \/ \E filename \in ReadFiles, format \in ReadFormats :
       ReadStructure(filename, format)

SpecConvert == InitFiles /\ [][NextConvert]_vars

\* Constructions of the intermediary and conversions between the two kinds
\* of structure, by an intermediary with no symbol table.
NextIntermediary ==
  \/ \E casm_to_ase_chemical_symbols \in SymbolTables :
       NewIntermediary(casm_to_ase_chemical_symbols)
  \/ \E ase_structure \in AtomsUpTo : MakeCasmStructure(ase_structure)
  \/ \E a \in AtomsUpTo :
       \/ MakeStructure(make_casm_structure(ASEIntermediary, a))
       \/ \E lattice_key \in {"lattice_vectors", "lattice"},
             coord_mode \in {"Fractional", "Cartesian"} :
            MakeStructure(CasmStructureOf(a, lattice_key, coord_mode))

SpecIntermediary == Init /\ [][NextIntermediary]_vars

\* ------------------------------------------------------------------ claims
\* The session objects whose __init__ ran to its end.
FullSessions == {i \in 1..Len(objs) : Initialized(objs[i])}

\* The thread's last API() call ended with an exception.
Failed(t) == raised[t].type # "none"

\* C1: in a single thread the session is constructed exactly once, on the
\* first successful construction: whenever an API instance exists, API.__api
\* is the one fully initialized session object, and once API.__api is set no
\* construction loads anything or replaces it.
C1_SessionConstructedOnce ==
  /\ [](\A t \in Threads :
          instances[t] > 0 =>
            /\ api # None
            /\ FullSessions = {api})
  /\ [][api # None => (api' = api /\ objs' = objs)]_vars

\* C1 witness: the second API() of the thread has returned.
C1_SecondConstruction ==
  /\ instances[MainThread] = MaxInstances
  /\ MaxInstances >= 2
  /\ FullSessions = {api}

\* C2: when threads construct API() concurrently, the session initialization
\* runs to its end at most once in the process.
C2_SingleFlight == Cardinality(FullSessions) <= 1

\* The failures of lines 38-47: lookup, introspection and the two loads.
LoadFailures == {"no_executable", "no_dependency", "load_casm", "load_ccasm"}

\* C8: a failure to locate or load either library leaves API(), the class
\* member stays unset, the failed call yields no instance, API.__api never
\* holds a partly initialized session, and the next construction starts from
\* a fresh session object at the executable lookup.
C8_LoadFailureAbortsInit ==
  /\ [](\A t \in Threads :
          /\ cause[t] \in LoadFailures => (Failed(t) /\ api = None /\ instances[t] = 0)
          /\ api # None => Initialized(objs[api]))
  /\ [][\A t \in Threads :
          (Failed(t) /\ pc[t] = "idle" /\ pc'[t] # "idle") =>
            /\ pc'[t] = "locate"
            /\ objs'[self'[t]] = NewSession
            /\ api' = None]_vars

\* C8 witness: the binding library failed to load after the engine library
\* had loaded, and a later construction succeeded with a new session object.
C8_RetryAfterPartialLoad ==
  /\ Len(objs) >= 2
  /\ objs[1].lib_casm /\ ~objs[1].lib_ccasm
  /\ api = 2
  /\ instances[MainThread] = 1

\* C9: with no executable named casm on the search path, API() fails with
\* the dedicated ExecutableNotFoundError.
C9_ExecutableNotFoundError ==
  \A t \in Threads :
    cause[t] = "no_executable" => raised[t].type = "ExecutableNotFoundError"

ReleaseOps == {"ostringstream_delete", "primclex_delete"}
UseOps == {"ostringstream_to_str", "primclex_refresh", "call"}

\* C3: a second release of a handle never reaches the native release.
C3_DoubleReleaseRejected ==
  (last.op \in ReleaseOps /\ last.hstate = "released") => last.native = "none"

\* C4: readout, refresh and dispatch never reach the native entry point with
\* a handle that was released or never created.
C4_NoUseAfterRelease ==
  (/\ last.op \in UseOps
   /\ (last.hstate \in {"released", "never"} \/ ~last.logs_ok))
    => last.native = "none"

\* C5: ostringstream_to_str of a live capturing sink returns exactly the
\* bytes written to it, zero bytes included.
C5_ReadoutRoundTrip ==
  (last.op = "ostringstream_to_str" /\ last.hstate = "live")
    => last.str = heap[last.h].content

NoFlags == <<"omitted", "omitted", "omitted", "omitted", "omitted">>

\* C7: primclex_refresh on a live context with no flag set is a no-op:
\* every dispatch gives the same status and text after it as before it, and
\* the captured text of every sink is what it was.
C7_RefreshNoFlagsNoOp ==
  [][(/\ last'.op = "primclex_refresh"
      /\ last'.hstate = "live"
      /\ last'.args = NoFlags)
       => /\ \A args \in Args, p \in CtxHandles, root \in Roots :
               casm_capi(args, ContextOf(p), root)'
                 = casm_capi(args, ContextOf(p), root)
          /\ \A a \in SinkAddrs : heap'[a] = heap[a]]_vars

\* C7 witness: a refresh with no flag set on a context that is out of date.
C7_RefreshOfStaleContext ==
  /\ last.op = "primclex_refresh"
  /\ last.hstate = "live"
  /\ last.args = NoFlags
  /\ heap[last.h].stale # {}

\* C10: the wrapper never passes stdout(), stderr() or nullstream() to a
\* native release entry point.
C10_SingletonsNeverReleased ==
  last.native \in {"casm_ostringstream_delete", "casm_primclex_delete"}
    => last.h \notin StdSinks

\* The objects the caller owns and has not released.
LiveHandles == {a \in Addrs : heap[a].live}

\* A dispatch whose context and logs were all valid.
ValidCall(c) == c.op = "call" /\ c.hstate \in {"live", "null"} /\ c.logs_ok

\* C11: the wrapper itself sees to the release of every handle it handed
\* out: when a command between acquisition and release has failed, no
\* capturing sink and no context is left for the caller to delete.
C11_WrapperReleasesOnFailure ==
  (alive /\ ValidCall(last) /\ last.rc # 0) => LiveHandles = {}

\* C12: whenever a thread holds an API instance, and so can call an
\* operation, API.__api is a session with both libraries loaded and the whole
\* signature table bound; also while another thread is inside the
\* initialization and after earlier attempts have failed.
C12_OperationsSeeInitializedSession ==
  \A t \in Threads :
    instances[t] > 0 => (api # None /\ Initialized(objs[api]))

\* C12 witness: one thread holds an instance while another has loaded both
\* libraries and not yet bound the table, after an attempt that failed.
C12_InstanceDuringOtherInit ==
  \E t \in Threads, u \in Threads :
    /\ instances[t] > 0
    /\ pc[u] = "bind"
    /\ \E i \in 1..Len(objs) : i # self[u] /\ ~Initialized(objs[i])

\* C13: refresh and dispatch create, replace and release nothing: every
\* address denotes after the step what it denoted before it.
C13_ContextIdentityStable ==
  [][last'.op \in {"primclex_refresh", "call"} =>
       \A a \in Addrs : /\ heap'[a].kind = heap[a].kind
                        /\ heap'[a].live = heap[a].live]_vars

\* C13 witness: a live context has been refreshed with a flag set, beside a
\* live capturing sink.
C13_RefreshedBesideSink ==
  /\ last.op = "primclex_refresh"
  /\ last.hstate = "live"
  /\ last.nargs[1]
  /\ heap[last.h].live
  /\ \E a \in SinkAddrs : heap[a].live

\* C14: primclex_refresh makes the one native refresh call with its five
\* flags as given, in the order settings, composition, chemical reference,
\* configurations, clear derived; an omitted flag is passed as false.
C14_RefreshFlagsForwarded ==
  last.op = "primclex_refresh" =>
    /\ last.native = "casm_primclex_refresh"
    /\ Len(last.nargs) = 5
    /\ \A i \in 1..5 : last.nargs[i] = (last.args[i] = "True")

\* C14 witness: a refresh with read_composition and clear_clex set only.
C14_MixedFlags ==
  /\ last.op = "primclex_refresh"
  /\ last.hstate = "live"
  /\ last.args = <<"omitted", "True", "omitted", "omitted", "True">>

\* C15: a non-zero status of the native dispatch is what API.__call__
\* returns; the process goes on, no handle is released and every live
\* context and sink is live after it.
C15_NonZeroStatusReturned ==
  [][(ValidCall(last') /\ last'.rc # 0) =>
       /\ alive'
       /\ last'.rc = casm_capi(last'.args[1], ContextOf(last'.args[2]),
                               last'.args[3]).status
       /\ \A a \in Addrs : heap'[a].kind = heap[a].kind
       /\ LiveHandles' = LiveHandles]_vars

\* C15 witness: a command on a live context has returned a non-zero status.
C15_FailedCommandOnContext ==
  /\ ValidCall(last)
  /\ last.hstate = "live"
  /\ last.rc # 0
  /\ heap[last.h].live

\* C16: each API.__call__ invokes casm_capi once, with the argument string,
\* the context, the root, the standard, the debug and the error log in that
\* order: the status and the captured text are those of one dispatch.
C16_DispatchForwardedOnce ==
  [][last'.op = "call" =>
       /\ last'.native = "casm_capi"
       /\ last'.nargs = last'.args
       /\ (ValidCall(last') =>
             LET r == casm_capi(last'.args[1], ContextOf(last'.args[2]),
                                last'.args[3])
             IN /\ last'.rc = r.status
                /\ \A a \in SinkAddrs :
                     heap'[a].content =
                       heap[a].content
                         \o (IF a = last'.args[4] THEN r.out ELSE <<>>)
                         \o (IF a = last'.args[6] THEN r.err ELSE <<>>))]_vars

\* C16 witness: a dispatch with three different logs has written to a
\* capturing sink.
C16_DispatchWithThreeLogs ==
  /\ ValidCall(last)
  /\ last.args[4] \in SinkAddrs
  /\ last.args[5] = casm_nullstream
  /\ last.args[6] = casm_STDERR
  /\ heap[last.args[4]].content # <<>>

\* C19: a readout changes no object of the engine and releases nothing, and
\* a readout that follows a readout of the same sink returns the same string.
C19_ReadoutReadOnly ==
  [][(last'.op = "ostringstream_to_str" /\ last'.hstate = "live") =>
       /\ heap' = heap
       /\ alive' = alive
       /\ last'.str = ostringstream_to_str(heap'[last'.h].content)
       /\ (last.op = "ostringstream_to_str" /\ last.h = last'.h
             /\ last.hstate = "live")
            => last'.str = last.str]_vars

\* C19 witness: a readout has returned captured text and the sink is live.
C19_ReadoutOfWrittenSink ==
  /\ last.op = "ostringstream_to_str"
  /\ last.hstate = "live"
  /\ last.str # <<>>
  /\ heap[last.h].live

\* The three outcomes of _check_output.
ErrorWith(args) == "Error with '" \o args \o "'"
ErrorParsing(args) == "Error parsing '" \o args \o "' results"

\* C20: _check_output with a non-zero return code raises "Error with
\* '<args>'" and does not parse, whatever the text; with return code zero and
\* text that is not valid JSON it raises "Error parsing '<args>' results";
\* with return code zero and valid JSON it returns the parsed value.
C20_CheckOutputCases ==
  res.op = "_check_output" =>
    LET stdout == res.in[1]
        returncode == res.in[2]
        args == res.in[3]
    IN /\ returncode # 0 =>
            (res.raised = ErrorWith(args) /\ ~res.parsed /\ ~res.returned)
       /\ (returncode = 0 /\ ~json_loads(stdout).ok) =>
            (res.raised = ErrorParsing(args) /\ ~res.returned)
       /\ (returncode = 0 /\ json_loads(stdout).ok) =>
            /\ res.raised = "none"
            /\ res.returned
            /\ res.value = json_loads(stdout).val

\* C20 witness: valid JSON came with a non-zero return code and was refused.
C20_ValidJsonNonZeroCode ==
  /\ res.op = "_check_output"
  /\ res.in[1] = <<"[", "1", "]">>
  /\ res.in[2] = 6
  /\ res.raised = ErrorWith(res.in[3])

Writers == {"write_casm_structure", "write_structure"}

\* The file a call of a writer is to write, the content it is to hold and
\* the force argument of the call.
TargetOf(c) ==
  IF c.op = "write_casm_structure"
    THEN os_path_join(c.in[2], "structure.casm.json")
  ELSE IF lower(c.in[2]) = "casm"
    THEN os_path_join(c.in[3], "structure.casm.json")
  ELSE os_path_join(c.in[3], "structure." \o ext(c.in[2]))

DataOf(c) ==
  IF c.op = "write_casm_structure" THEN c.in[1]
  ELSE IF lower(c.in[2]) = "casm" THEN make_casm_structure(ASEIntermediary, c.in[1])
  ELSE c.in[1]

ForceOf(c) == c.in[Len(c.in)]

\* C17: a writer called with force false for a file that exists raises the
\* already-exists error and changes no file; called with force true it
\* returns and the file holds the new structure, every other file what it
\* held.  For every format and whatever was written to the directory before.
C17_NoOverwriteUnlessForced ==
  [][(res'.op \in Writers /\ TargetOf(res') \in DOMAIN fs) =>
       IF ForceOf(res')
         THEN /\ res'.raised = "none"
              /\ res'.value = TargetOf(res')
              /\ fs'[TargetOf(res')].data = DataOf(res')
              /\ \A path \in DOMAIN fs \ {TargetOf(res')} : fs'[path] = fs[path]
         ELSE /\ res'.raised = AlreadyExists(TargetOf(res'))
              /\ fs' = fs]_vars

\* C17 witness: write_structure with format "CASM" and force false has been
\* refused because structure.casm.json was there.
C17_UpperCaseFormatRefused ==
  /\ res.op = "write_structure"
  /\ res.in[2] = "CASM"
  /\ ~ForceOf(res)
  /\ res.raised = AlreadyExists("/a/structure.casm.json")

\* C18: when main returns from a run with --input, it has printed one output
\* filename for each of the files listed, in their order.
C18_MainConvertsEveryInput ==
  (res.op = "main" /\ res.raised = "none") =>
    /\ Len(res.printed) = Len(res.in[1])
    /\ \A i \in 1..Len(res.in[1]) :
         res.printed[i] = os_path_join(os_path_dirname(res.in[1][i]),
                                       IF lower(res.in[3]) = "casm"
                                         THEN "structure.casm.json"
                                         ELSE "structure." \o ext(res.in[3]))

\* C21: the construction of an ASEIntermediary with an injective dictionary
\* succeeds, and its second table takes every value of the first back to
\* its key.
C21_SymbolTablesInverse ==
  res.op = "ASEIntermediary" =>
    /\ res.raised = "none"
    /\ \A k \in DOMAIN res.in[1] :
         LET ase == res.value.casm_to_ase_chemical_symbols[k]
         IN /\ ase \in DOMAIN res.value.ase_to_casm_chemical_symbols
            /\ res.value.ase_to_casm_chemical_symbols[ase] = k

\* C22: make_structure reads back what make_casm_structure wrote: for the
\* record made from any atoms it returns atoms with the same cell, symbols
\* and scaled positions.
C22_CasmStructureReadBack ==
  \A a \in AtomsUpTo :
    (res.op = "make_structure" /\ res.in[1] = make_casm_structure(ASEIntermediary, a))
      => (res.raised = "none" /\ res.value = a)

\* The name the output file of a format is to have in a directory.
StructureFile(output_dir, format) ==
  os_path_join(output_dir,
               CASE format = "json" -> "structure.ase.json"
                 [] format = "casm" -> "structure.casm.json"
                 [] OTHER -> "structure." \o format)

\* C23: write_structure tests, writes and returns one file, structure.<ext>
\* of the format: it refuses exactly when that file exists and force is
\* false, and else it returns that name and that file is the only one it
\* has written.
C23_OneFileCheckedWrittenReturned ==
  [][res'.op = "write_structure" =>
       LET name == StructureFile(res'.in[3], res'.in[2])
       IN IF name \in DOMAIN fs /\ ~ForceOf(res')
            THEN /\ res'.raised = AlreadyExists(name)
                 /\ fs' = fs
            ELSE /\ res'.raised = "none"
                 /\ res'.value = name
                 /\ name \in DOMAIN fs'
                 /\ \A path \in DOMAIN fs' \ {name} :
                      path \in DOMAIN fs /\ fs'[path] = fs[path]]_vars

====
